---------------------------- MODULE Spec2Model ----------------------------
(***************************************************************************)
(* A model of OpenAVR (src/unnamed/part_000) and of its use in              *)
(* src/example.js: the WebXR set-up (initXR), the per-frame callback        *)
(* (onXRFrame with updateCameraFromPose, detectGaze, detectGestures,        *)
(* detectControllerInput) and the voice relay (initVoiceInput).             *)
(*                                                                         *)
(* Units.  Lengths are integers, one unit = 0.01 scene units, so the pinch  *)
(* threshold 0.02 is 2 and the button mesh at (0, 1.5, -2) is at            *)
(* (0, 150, -200).  Vectors are <<x, y, z>>, quaternions <<x, y, z, w>>.    *)
(*                                                                         *)
(* JavaScript runs every callback to completion, so each callback is one   *)
(* action.  What a frame callback did is kept in `frame`, `calls` and       *)
(* `threw` until the callback has returned to the host (FrameReturn).       *)
(***************************************************************************)
EXTENDS Integers, Sequences, FiniteSets

VARIABLES
    mode,            \* this.mode: "AR" or "VR"
    navigatorXR,     \* whether navigator.xr exists in the host
    xrInit,          \* position of the async initXR call
    xrSession,       \* this.xrSession is set
    xrReferenceSpace,\* this.xrReferenceSpace is set
    initError,       \* the error initXR rejected with ("" when none)
    starts,          \* number of requestAnimationFrame calls made by initXR
    rafPending,      \* frame callbacks registered with the session, not yet run
    frames,          \* number of frame callbacks that have run
    frame,           \* the XRFrame of the callback that ran last (NoFrame once it returned)
    calls,           \* the calls that callback made on its collaborators, in order
    threw,           \* that callback ended by an exception leaving onXRFrame
    uncaught,        \* exceptions that have left onXRFrame so far
    camera,          \* this.camera: position and quaternion
    cameraBefore,    \* the camera when the last callback started
    colors,          \* material colour of each child of this.scene
    colorsBefore,    \* the colours when the last callback started
    lastPose,        \* the viewer pose of the latest frame that had one
    animationLoop,   \* renderer3D.setAnimationLoop has been given a render callback
    raycaster,       \* this.raycaster: origin and direction of its ray
    pinchEvents,     \* onGesture('pinch') calls made so far
    clicks,          \* #actionBtn clicks made so far
    pinchFrames,     \* hands, over all frames run, whose two tips were within the threshold
    speech,          \* window.SpeechRecognition (or the webkit one) exists
    witToken,        \* this.witToken is set
    recognizing,     \* recognition.start() was called and onresult is installed
    requests,        \* the onresult invocations so far, each with its position
    voiceCalls,      \* the arguments onVoiceCommand was called with, in order
    failureReports,  \* failure events the relay has reported to the application
    unhandled        \* rejected onresult promises (nothing handles them)

xrVars == <<mode, navigatorXR, xrInit, xrSession, xrReferenceSpace, initError, starts>>
frameVars == <<rafPending, frames, frame, calls, threw, uncaught, camera, cameraBefore,
               colors, colorsBefore, lastPose, animationLoop, raycaster, pinchEvents,
               clicks, pinchFrames>>
voiceVars == <<speech, witToken, recognizing, requests, voiceCalls, failureReports,
               unhandled>>
vars == <<xrVars, frameVars, voiceVars>>

-----------------------------------------------------------------------------
(* Bounds of the model *)

MaxFrames == 3
MaxSources == 2
MaxUtterances == 2

-----------------------------------------------------------------------------
(* Program constants *)

PinchThreshold == 2
HighlightColor == 16711680
ButtonColor == 65280

-----------------------------------------------------------------------------
(* Geometry *)

Abs(n) == IF n < 0 THEN -n ELSE n

IdentityQ == <<0, 0, 0, 1>>
Yaw180 == <<0, 1, 0, 0>>
Forward == <<0, 0, -1>>

\* THREE.Vector3.applyQuaternion, as called on (0, 0, -1) in detectGaze.
applyQuaternion(v, q) ==
    LET x == v[1]  y == v[2]  z == v[3]
        qx == q[1] qy == q[2] qz == q[3] qw == q[4]
        ix == qw * x + qy * z - qz * y
        iy == qw * y + qz * x - qx * z
        iz == qw * z + qx * y - qy * x
        iw == (0 - qx) * x - qy * y - qz * z
    IN  << ix * qw + iw * (0 - qx) + iy * (0 - qz) - iz * (0 - qy),
           iy * qw + iw * (0 - qy) + iz * (0 - qx) - ix * (0 - qz),
           iz * qw + iw * (0 - qz) + ix * (0 - qy) - iy * (0 - qx) >>

\* dx*dx + dy*dy + dz*dz of detectGestures; the code compares its square root.
DistanceSquared(a, b) ==
    LET dx == a[1] - b[1]
        dy == a[2] - b[2]
        dz == a[3] - b[3]
    IN  dx * dx + dy * dy + dz * dz

\* A slip: distance <= 0.02
IsPinchInclusive(indexPos, thumbPos) ==
    DistanceSquared(indexPos, thumbPos) <= PinchThreshold * PinchThreshold

\* distance < 0.02, with distance = Math.sqrt(s): for s >= 0 this is
\* s < 0.02 * 0.02.
IsPinch(indexPos, thumbPos) ==
    DistanceSquared(indexPos, thumbPos) < PinchThreshold * PinchThreshold

-----------------------------------------------------------------------------
(* The scene: the button mesh of create3DGUI and two meshes the application *)
(* has added to avr.scene, one behind the button and one behind the viewer. *)
(* Each is an axis-aligned box: centre and half extents.                    *)

SceneChildren ==
    << [name |-> "buttonMesh", center |-> <<0, 150, -200>>, half |-> <<10, 5, 1>>],
       [name |-> "wall",       center |-> <<0, 150, -400>>, half |-> <<50, 4, 1>>],
       [name |-> "rear",       center |-> <<0, 150, 300>>,  half |-> <<50, 4, 1>>] >>

Objects == 1..Len(SceneChildren)

InitialColors == [o \in Objects |-> ButtonColor]

\* The ray (origin, dir) meets the front of the box; dir is a unit axis vector.
RayHits(origin, dir, box) ==
    \A j \in 1..3 :
        IF dir[j] = 0
        THEN Abs(origin[j] - box.center[j]) < box.half[j]
        ELSE (box.center[j] - origin[j]) * dir[j] - box.half[j] > 0

RayDistance(origin, dir, box) ==
    LET along(j) == IF dir[j] = 0 THEN 0
                    ELSE (box.center[j] - origin[j]) * dir[j] - box.half[j]
    IN  along(1) + along(2) + along(3)

RECURSIVE SortByDistance(_, _, _)
\* The hits among `objs`, nearest first; equal distances keep the children's order.
SortByDistance(origin, dir, objs) ==
    IF objs = {} THEN << >>
    ELSE LET d(o) == RayDistance(origin, dir, SceneChildren[o])
             first == CHOOSE o \in objs :
                        \A p \in objs : d(o) < d(p) \/ (d(o) = d(p) /\ o <= p)
         IN  << [object |-> first, distance |-> d(first)] >>
               \o SortByDistance(origin, dir, objs \ {first})

\* raycaster.set(origin, dir); raycaster.intersectObjects(this.scene.children)
intersectObjects(origin, dir) ==
    SortByDistance(origin, dir,
                   {o \in Objects : RayHits(origin, dir, SceneChildren[o])})

-----------------------------------------------------------------------------
(* What the XR device hands to a frame callback *)

View(pos, ori) == [position |-> pos, orientation |-> ori]

\* frame.getViewerPose(...) returned null
NoPose == [present |-> FALSE, views |-> << >>]
Pose(vs) == [present |-> TRUE, views |-> vs]

EyeLevel == View(<<0, 160, 0>>, IdentityQ)      \* sees nothing
AtButton == View(<<0, 150, 0>>, IdentityQ)      \* sees buttonMesh, then wall
TurnedBack == View(<<0, 150, 0>>, Yaw180)       \* sees rear

Poses ==
    { NoPose, Pose(<< >>), Pose(<<EyeLevel>>), Pose(<<AtButton>>),
      Pose(<<TurnedBack, EyeLevel>>) }

\* frame.getJointPose(...) returned null
Unresolved == [resolved |-> FALSE, position |-> <<0, 0, 0>>]
Resolved(pos) == [resolved |-> TRUE, position |-> pos]

NoHand == [present |-> FALSE, hasIndexTip |-> FALSE, hasThumbTip |-> FALSE,
           indexPose |-> Unresolved, thumbPose |-> Unresolved]
Hand(indexPose, thumbPose) ==
    [present |-> TRUE, hasIndexTip |-> TRUE, hasThumbTip |-> TRUE,
     indexPose |-> indexPose, thumbPose |-> thumbPose]
\* a hand whose joint map has no 'index-finger-tip' entry
HandWithoutIndexTip ==
    [present |-> TRUE, hasIndexTip |-> FALSE, hasThumbTip |-> TRUE,
     indexPose |-> Unresolved, thumbPose |-> Resolved(<<0, 100, 1>>)]

NoGamepad == [present |-> FALSE, buttons |-> << >>]
Gamepad(pressed) == [present |-> TRUE, buttons |-> pressed]

InputSource(hand, gamepad) == [hand |-> hand, gamepad |-> gamepad]

IndexAt == Resolved(<<0, 100, 0>>)

InputSourceKinds ==
    { InputSource(Hand(IndexAt, Resolved(<<0, 100, 1>>)), NoGamepad),
      InputSource(Hand(IndexAt, Resolved(<<0, 100, 2>>)), NoGamepad),
      InputSource(Hand(IndexAt, Resolved(<<0, 100, 3>>)), Gamepad(<<FALSE, TRUE>>)),
      InputSource(Hand(IndexAt, Unresolved), NoGamepad),
      InputSource(HandWithoutIndexTip, NoGamepad),
      InputSource(Hand(IndexAt, Resolved(<<0, 100, 1>>)), Gamepad(<<TRUE, FALSE>>)),
      InputSource(NoHand, Gamepad(<< >>)) }

InputSourceLists ==
    UNION { [1..n -> InputSourceKinds] : n \in 0..MaxSources }

NoFrame == [active |-> FALSE, pose |-> NoPose, inputSources |-> << >>]

Frames ==
    { [active |-> TRUE, pose |-> p, inputSources |-> s] :
        p \in Poses, s \in InputSourceLists }

-----------------------------------------------------------------------------
(* The calls a frame callback makes, in order *)

Call(op, arg, src) == [op |-> op, arg |-> arg, src |-> src]

\* What a step of the callback leaves: the calls so far, whether a TypeError
\* was thrown, the camera, the colours and the ray of this.raycaster.
Outcome(cs, failed, cam, cols, ray) ==
    [calls |-> cs, threw |-> failed, camera |-> cam, colors |-> cols, ray |-> ray]

Ray(origin, direction) == [origin |-> origin, direction |-> direction]

\* The callback calls its own method `fn` (for the i-th input source, or 0).
Enter(o, fn, i) ==
    Outcome(Append(o.calls, Call(fn, "", i)), o.threw, o.camera, o.colors, o.ray)

-----------------------------------------------------------------------------
(* The frame callback and what it calls *)

\* A slip: the position is copied and the orientation is forgotten
updateCameraPositionOnly(o, pose) ==
    IF pose.views = << >>
    THEN Outcome(o.calls, TRUE, o.camera, o.colors, o.ray)
    ELSE Outcome(o.calls \o << Call("camera.position.set", "", 0) >>, FALSE,
                 [position |-> pose.views[1].position,
                  quaternion |-> o.camera.quaternion],
                 o.colors, o.ray)

\* pose.views[0] of an empty views array is undefined, and reading
\* view.transform then throws a TypeError before the camera is touched.
updateCameraFromPose(o, pose) ==
    IF pose.views = << >>
    THEN Outcome(o.calls, TRUE, o.camera, o.colors, o.ray)
    ELSE LET view == pose.views[1]
         IN  Outcome(o.calls \o << Call("camera.position.set", "", 0),
                                   Call("camera.quaternion.set", "", 0) >>,
                     FALSE,
                     [position |-> view.position, quaternion |-> view.orientation],
                     o.colors, o.ray)

\* A slip: every intersected object is coloured, not only intersects[0]
detectGazeEveryHit(o, pose) ==
    IF pose.views = << >>
    THEN Outcome(o.calls, TRUE, o.camera, o.colors, o.ray)
    ELSE LET gazeDirection == applyQuaternion(Forward, pose.views[1].orientation)
             intersects == intersectObjects(o.camera.position, gazeDirection)
             hit == { intersects[k].object : k \in 1..Len(intersects) }
         IN  Outcome(o.calls \o << Call("raycaster.set", "", 0) >>, FALSE, o.camera,
                     [obj \in Objects |->
                        IF obj \in hit THEN HighlightColor ELSE o.colors[obj]],
                     Ray(o.camera.position, gazeDirection))

\* A slip: whatever the gaze does not meet gets its colour back
detectGazeRestoring(o, pose) ==
    IF pose.views = << >>
    THEN Outcome(o.calls, TRUE, o.camera, o.colors, o.ray)
    ELSE LET gazeDirection == applyQuaternion(Forward, pose.views[1].orientation)
             intersects == intersectObjects(o.camera.position, gazeDirection)
             nearest == IF Len(intersects) > 0 THEN { intersects[1].object } ELSE {}
         IN  Outcome(o.calls \o << Call("raycaster.set", "", 0) >>, FALSE, o.camera,
                     [obj \in Objects |->
                        IF obj \in nearest THEN HighlightColor ELSE ButtonColor],
                     Ray(o.camera.position, gazeDirection))

\* detectGaze(pose): the nearest object the gaze ray meets turns 0xff0000
detectGaze(o, pose) ==
    IF pose.views = << >>
    THEN Outcome(o.calls, TRUE, o.camera, o.colors, o.ray)
    ELSE LET orientation == pose.views[1].orientation
             gazeDirection == applyQuaternion(Forward, orientation)
             intersects == intersectObjects(o.camera.position, gazeDirection)
             cast == o.calls \o << Call("raycaster.set", "", 0) >>
         IN  IF Len(intersects) > 0
             THEN Outcome(cast \o << Call("color.set",
                                          SceneChildren[intersects[1].object].name, 0) >>,
                          FALSE, o.camera,
                          [o.colors EXCEPT ![intersects[1].object] = HighlightColor],
                          Ray(o.camera.position, gazeDirection))
             ELSE Outcome(cast, FALSE, o.camera, o.colors,
                          Ray(o.camera.position, gazeDirection))

\* hand.get(...) of a joint the hand does not have is undefined, and
\* frame.getJointPose(undefined, space) throws a TypeError (its first argument
\* must be an XRJointSpace).
detectGestures(o, i, hand) ==
    IF ~hand.hasIndexTip \/ ~hand.hasThumbTip
    THEN Outcome(o.calls, TRUE, o.camera, o.colors, o.ray)
    ELSE IF hand.indexPose.resolved /\ hand.thumbPose.resolved
              /\ IsPinch(hand.indexPose.position, hand.thumbPose.position)
         THEN Outcome(o.calls \o << Call("onGesture", "pinch", i),
                                    Call("actionBtn.click", "", i) >>,
                      FALSE, o.camera, o.colors, o.ray)
         ELSE o

\* buttons[0] of an empty buttons array is undefined, and reading .pressed of
\* it throws a TypeError.
detectControllerInput(o, i, inputSource) ==
    IF inputSource.gamepad.buttons = << >>
    THEN Outcome(o.calls, TRUE, o.camera, o.colors, o.ray)
    ELSE IF inputSource.gamepad.buttons[1]
         THEN Outcome(o.calls \o << Call("onGesture", "select", i) >>,
                      FALSE, o.camera, o.colors, o.ray)
         ELSE o

\* A slip: `else if (inputSource.gamepad)`, the gamepad is looked at only
\* when there is no hand
ProcessInputSourceHandOrGamepad(o, i, inputSource) ==
    IF inputSource.hand.present
    THEN detectGestures(Enter(o, "detectGestures", i), i, inputSource.hand)
    ELSE IF inputSource.gamepad.present
         THEN detectControllerInput(Enter(o, "detectControllerInput", i), i, inputSource)
         ELSE o

\* The body of the for loop over session.inputSources, for the i-th source.
ProcessInputSource(o, i, inputSource) ==
    LET afterHand == IF inputSource.hand.present
                     THEN detectGestures(Enter(o, "detectGestures", i), i,
                                         inputSource.hand)
                     ELSE o
    IN  IF afterHand.threw THEN afterHand
        ELSE IF inputSource.gamepad.present
             THEN detectControllerInput(Enter(afterHand, "detectControllerInput", i),
                                        i, inputSource)
             ELSE afterHand

RECURSIVE ProcessInputSources(_, _, _)
\* The for loop, from the i-th source on; an exception ends it.
ProcessInputSources(o, inputSources, i) ==
    IF o.threw \/ i > Len(inputSources) THEN o
    ELSE ProcessInputSources(ProcessInputSource(o, i, inputSources[i]),
                             inputSources, i + 1)

\* A slip: the callback is registered twice
RescheduleTwice(o) ==
    Outcome(o.calls \o << Call("requestAnimationFrame", "", 0),
                          Call("requestAnimationFrame", "", 0) >>,
            FALSE, o.camera, o.colors, o.ray)

\* session.requestAnimationFrame(this.onXRFrame.bind(this)), the last statement
Reschedule(o) ==
    Outcome(o.calls \o << Call("requestAnimationFrame", "", 0) >>,
            FALSE, o.camera, o.colors, o.ray)

\* A slip: the gaze is checked before the camera is moved
PoseStepGazeFirst(o, pose) ==
    IF ~pose.present THEN o
    ELSE LET gazed == detectGaze(Enter(o, "detectGaze", 0), pose)
         IN  IF gazed.threw THEN gazed
             ELSE updateCameraFromPose(Enter(gazed, "updateCameraFromPose", 0), pose)

\* if (pose) { updateCameraFromPose(pose); detectGaze(pose); }
PoseStep(o, pose) ==
    IF ~pose.present THEN o
    ELSE LET mapped == updateCameraFromPose(Enter(o, "updateCameraFromPose", 0), pose)
         IN  IF mapped.threw THEN mapped
             ELSE detectGaze(Enter(mapped, "detectGaze", 0), pose)

\* A slip: the loop over the input sources is inside `if (pose)`
onXRFrameNeedsPose(cam, cols, ray, f) ==
    LET entered == Outcome(<< Call("renderer3D.setSize", "", 0),
                              Call("renderer3D.setAnimationLoop", "", 0) >>,
                           FALSE, cam, cols, ray)
        posed == PoseStep(entered, f.pose)
        looped == IF posed.threw \/ ~f.pose.present THEN posed
                  ELSE ProcessInputSources(posed, f.inputSources, 1)
    IN  IF looped.threw THEN looped ELSE Reschedule(looped)

\* onXRFrame(time, frame): what one run of the callback on the frame f does
onXRFrame(cam, cols, ray, f) ==
    LET entered == Outcome(<< Call("renderer3D.setSize", "", 0),
                              Call("renderer3D.setAnimationLoop", "", 0) >>,
                           FALSE, cam, cols, ray)
        posed == PoseStep(entered, f.pose)
        looped == IF posed.threw THEN posed
                  ELSE ProcessInputSources(posed, f.inputSources, 1)
    IN  IF looped.threw THEN looped ELSE Reschedule(looped)

\* How many of the calls are `op`
RECURSIVE CountOp(_, _)
CountOp(cs, op) ==
    IF cs = << >> THEN 0
    ELSE (IF cs[1].op = op THEN 1 ELSE 0) + CountOp(Tail(cs), op)

RECURSIVE CountCalls(_, _, _)
\* How many of the calls are `op` with the argument `arg`
CountCalls(cs, op, arg) ==
    IF cs = << >> THEN 0
    ELSE (IF cs[1].op = op /\ cs[1].arg = arg THEN 1 ELSE 0)
           + CountCalls(Tail(cs), op, arg)

\* The hands of the frame f that have both tip joints, both resolved, less
\* than 0.02 apart (0.02 * 0.02 = 0.0004, here 4).
HandsWithinThreshold(f) ==
    { i \in 1..Len(f.inputSources) :
        LET hand == f.inputSources[i].hand
        IN  /\ hand.present /\ hand.hasIndexTip /\ hand.hasThumbTip
            /\ hand.indexPose.resolved /\ hand.thumbPose.resolved
            /\ DistanceSquared(hand.indexPose.position, hand.thumbPose.position) < 4 }

-----------------------------------------------------------------------------
(* The voice relay's text handling and the classifier's responses *)

RECURSIVE TrimStart(_)
TrimStart(t) ==
    IF t # << >> /\ t[1] = " " THEN TrimStart(Tail(t)) ELSE t

RECURSIVE TrimEnd(_)
TrimEnd(t) ==
    IF t # << >> /\ t[Len(t)] = " " THEN TrimEnd(SubSeq(t, 1, Len(t) - 1)) ELSE t

\* String.prototype.trim
Trim(t) == TrimEnd(TrimStart(t))

RECURSIVE encodeURIComponent(_)
\* letters stay; a space becomes %20 and an ampersand %26
encodeURIComponent(t) ==
    IF t = << >> THEN << >>
    ELSE (CASE t[1] = " " -> << "%", "2", "0" >>
            [] t[1] = "&" -> << "%", "2", "6" >>
            [] OTHER -> << t[1] >>) \o encodeURIComponent(Tail(t))

Transcripts == { << " ", "g", "o" >>, << "a", " ", "&", "b", " " >> }

\* A response body that is not JSON (also the value of `body` before a response)
NoBody == [parsable |-> FALSE, hasEntities |-> FALSE, entities |-> ""]
Json(entities) == [parsable |-> TRUE, hasEntities |-> TRUE, entities |-> entities]
\* JSON without an `entities` member, such as an error object of the service
JsonWithoutEntities == [parsable |-> TRUE, hasEntities |-> FALSE, entities |-> ""]

Bodies == { NoBody, Json("change_scene"), Json("go_back"), JsonWithoutEntities }

-----------------------------------------------------------------------------
(* The state after `new OpenAVR(options)` *)

\* A slip: the token is not looked at
initVoiceInputWithoutToken(hasSpeech, hasToken) == hasSpeech

\* initVoiceInput: `if (!SpeechRecognition || !this.witToken) return;`, and
\* otherwise onresult is installed and recognition.start() is called.
initVoiceInput(hasSpeech, hasToken) == hasSpeech /\ hasToken

Constructed(m, hasXR, hasSpeech, hasToken) ==
    /\ mode = m
    /\ navigatorXR = hasXR
    /\ xrInit = "notCalled"
    /\ xrSession = FALSE
    /\ xrReferenceSpace = FALSE
    /\ initError = ""
    /\ starts = 0
    /\ rafPending = 0
    /\ frames = 0
    /\ frame = NoFrame
    /\ calls = << >>
    /\ threw = FALSE
    /\ uncaught = 0
    /\ camera = [position |-> <<0, 0, 0>>, quaternion |-> IdentityQ]
    /\ cameraBefore = [position |-> <<0, 0, 0>>, quaternion |-> IdentityQ]
    /\ colors = InitialColors
    /\ colorsBefore = InitialColors
    /\ lastPose = NoPose
    /\ animationLoop = FALSE
    /\ raycaster = Ray(<<0, 0, 0>>, Forward)
    /\ pinchEvents = 0
    /\ clicks = 0
    /\ pinchFrames = 0
    /\ speech = hasSpeech
    /\ witToken = hasToken
    /\ recognizing = initVoiceInput(hasSpeech, hasToken)
    /\ requests = << >>
    /\ voiceCalls = << >>
    /\ failureReports = << >>
    /\ unhandled = 0

\* example.js: mode 'AR' and a witToken are given; the host may or may not
\* have WebXR.
Init ==
    \E hasXR \in BOOLEAN : Constructed("AR", hasXR, TRUE, TRUE)

-----------------------------------------------------------------------------
(* initXR, one action per stretch between awaits *)

InitXRFails(message) ==
    /\ xrInit' = "failed"
    /\ initError' = message
    /\ UNCHANGED <<mode, navigatorXR, xrSession, xrReferenceSpace, starts>>
    /\ UNCHANGED <<frameVars, voiceVars>>

\* avr.initXR() of example.js, up to the first await
InitXRCall ==
    /\ xrInit = "notCalled"
    /\ IF ~navigatorXR
       THEN InitXRFails("WebXR not supported")
       ELSE /\ xrInit' = "isSessionSupported"
            /\ UNCHANGED <<mode, navigatorXR, xrSession, xrReferenceSpace, initError,
                           starts>>
            /\ UNCHANGED <<frameVars, voiceVars>>

\* isSessionSupported settles; on true, requestSession is called
InitXRSupported(settled, isSupported) ==
    /\ xrInit = "isSessionSupported"
    /\ IF ~settled
       THEN InitXRFails("isSessionSupported rejected")
       ELSE IF ~isSupported
            THEN InitXRFails(IF mode = "VR" THEN "VR not supported"
                             ELSE "AR not supported")
            ELSE /\ xrInit' = "requestSession"
                 /\ UNCHANGED <<mode, navigatorXR, xrSession, xrReferenceSpace,
                                initError, starts>>
                 /\ UNCHANGED <<frameVars, voiceVars>>

\* A slip: the frame callback is registered as soon as the session is there
InitXRSessionRegistersEarly(settled) ==
    /\ xrInit = "requestSession"
    /\ IF ~settled
       THEN InitXRFails("requestSession rejected")
       ELSE /\ xrInit' = "requestReferenceSpace"
            /\ xrSession' = TRUE
            /\ starts' = starts + 1
            /\ rafPending' = rafPending + 1
            /\ UNCHANGED <<mode, navigatorXR, xrReferenceSpace, initError>>
            /\ UNCHANGED <<frames, frame, calls, threw, uncaught, camera, cameraBefore,
                           colors, colorsBefore, lastPose, animationLoop, raycaster,
                           pinchEvents, clicks, pinchFrames>>
            /\ UNCHANGED voiceVars

\* requestSession settles; on success the session gets its base layer and
\* requestReferenceSpace is called
InitXRSession(settled) ==
    /\ xrInit = "requestSession"
    /\ IF ~settled
       THEN InitXRFails("requestSession rejected")
       ELSE /\ xrInit' = "requestReferenceSpace"
            /\ xrSession' = TRUE
            /\ UNCHANGED <<mode, navigatorXR, xrReferenceSpace, initError, starts>>
            /\ UNCHANGED <<frameVars, voiceVars>>

\* requestReferenceSpace settles; on success the first frame callback is
\* registered
InitXRReferenceSpace(settled) ==
    /\ xrInit = "requestReferenceSpace"
    /\ IF ~settled
       THEN InitXRFails("requestReferenceSpace rejected")
       ELSE /\ xrInit' = "done"
            /\ xrReferenceSpace' = TRUE
            /\ starts' = starts + 1
            /\ rafPending' = rafPending + 1
            /\ UNCHANGED <<mode, navigatorXR, xrSession, initError>>
            /\ UNCHANGED <<frames, frame, calls, threw, uncaught, camera, cameraBefore,
                           colors, colorsBefore, lastPose, animationLoop, raycaster,
                           pinchEvents, clicks, pinchFrames>>
            /\ UNCHANGED voiceVars

-----------------------------------------------------------------------------
(* The frame loop *)

\* The session runs a registered frame callback on the frame f.
OnXRFrame(f) ==
    /\ rafPending > 0
    /\ ~frame.active
    /\ frames < MaxFrames
    /\ LET o == onXRFrame(camera, colors, raycaster, f)
       IN  /\ frame' = f
           /\ raycaster' = o.ray
           /\ calls' = o.calls
           /\ threw' = o.threw
           /\ uncaught' = uncaught + (IF o.threw THEN 1 ELSE 0)
           /\ camera' = o.camera
           /\ colors' = o.colors
           /\ rafPending' = rafPending - 1 + CountOp(o.calls, "requestAnimationFrame")
           /\ animationLoop' =
                  (animationLoop \/ CountOp(o.calls, "renderer3D.setAnimationLoop") > 0)
           /\ pinchEvents' = pinchEvents + CountCalls(o.calls, "onGesture", "pinch")
           /\ clicks' = clicks + CountOp(o.calls, "actionBtn.click")
    /\ cameraBefore' = camera
    /\ colorsBefore' = colors
    /\ lastPose' = IF f.pose.present THEN f.pose ELSE lastPose
    /\ pinchFrames' = pinchFrames + Cardinality(HandsWithinThreshold(f))
    /\ frames' = frames + 1
    /\ UNCHANGED <<xrVars, voiceVars>>

\* The callback has returned to the host (or its exception has reached it):
\* the frame object is dead and nothing of the iteration is kept.
FrameReturn ==
    /\ frame.active
    /\ frame' = NoFrame
    /\ calls' = << >>
    /\ threw' = FALSE
    /\ cameraBefore' = camera
    /\ colorsBefore' = colors
    /\ UNCHANGED <<rafPending, frames, uncaught, camera, colors, lastPose,
                   animationLoop, raycaster, pinchEvents, clicks, pinchFrames>>
    /\ UNCHANGED <<xrVars, voiceVars>>

Next ==
    \/ InitXRCall
    \/ \E settled \in BOOLEAN, isSupported \in BOOLEAN :
           InitXRSupported(settled, isSupported)
    \/ \E settled \in BOOLEAN : InitXRSession(settled)
    \/ \E settled \in BOOLEAN : InitXRReferenceSpace(settled)
    \/ \E f \in Frames : OnXRFrame(f)
    \/ FrameReturn

Spec == Init /\ [][Next]_vars

-----------------------------------------------------------------------------
(* The voice relay: recognition.onresult, one action per stretch between    *)
(* awaits.  requests[i] is the i-th invocation of the async handler.        *)

\* The host has no SpeechRecognition, or no witToken was given, or both.
VoiceInit ==
    \E hasSpeech \in BOOLEAN, hasToken \in BOOLEAN :
        Constructed("AR", TRUE, hasSpeech, hasToken)

\* A finalized utterance: the handler trims it and calls fetch.
OnResult(transcript) ==
    /\ recognizing
    /\ Len(requests) < MaxUtterances
    /\ requests' = Append(requests,
                          [transcript |-> transcript,
                           q |-> encodeURIComponent(Trim(transcript)),
                           stage |-> "fetch",
                           body |-> NoBody])
    /\ UNCHANGED <<speech, witToken, recognizing, voiceCalls, failureReports,
                   unhandled>>
    /\ UNCHANGED <<xrVars, frameVars>>

\* fetch resolves with a response; the handler calls response.json()
FetchResolved(i, body) ==
    /\ i \in 1..Len(requests)
    /\ requests[i].stage = "fetch"
    /\ requests' = [requests EXCEPT ![i].stage = "json", ![i].body = body]
    /\ UNCHANGED <<speech, witToken, recognizing, voiceCalls, failureReports,
                   unhandled>>
    /\ UNCHANGED <<xrVars, frameVars>>

\* A slip: the rejection takes the frame loop down with it
HandlerRejectsStopsLoop(i) ==
    /\ requests' = [requests EXCEPT ![i].stage = "rejected"]
    /\ unhandled' = unhandled + 1
    /\ rafPending' = 0
    /\ UNCHANGED <<speech, witToken, recognizing, voiceCalls, failureReports>>
    /\ UNCHANGED <<frames, frame, calls, threw, uncaught, camera, cameraBefore,
                   colors, colorsBefore, lastPose, animationLoop, raycaster,
                   pinchEvents, clicks, pinchFrames>>
    /\ UNCHANGED xrVars

\* The handler's promise rejects: there is no try/catch in it and nothing is
\* attached to the promise, so nothing is told to the application.
HandlerRejects(i) ==
    /\ requests' = [requests EXCEPT ![i].stage = "rejected"]
    /\ unhandled' = unhandled + 1
    /\ UNCHANGED <<speech, witToken, recognizing, voiceCalls, failureReports>>
    /\ UNCHANGED <<xrVars, frameVars>>

\* fetch rejects (a network error)
FetchRejected(i) ==
    /\ i \in 1..Len(requests)
    /\ requests[i].stage = "fetch"
    /\ HandlerRejects(i)

\* A slip: `data` kept in one place shared by all invocations of the handler,
\* so the callback gets what the latest response held
JsonSettledSharedData(i) ==
    /\ i \in 1..Len(requests)
    /\ requests[i].stage = "json"
    /\ LET latest == requests[Len(requests)].body
       IN  IF requests[i].body.parsable
           THEN /\ requests' = [requests EXCEPT ![i].stage = "delivered"]
                /\ voiceCalls' = Append(voiceCalls,
                                        [request |-> i,
                                         defined |-> latest.hasEntities,
                                         entities |-> latest.entities])
                /\ UNCHANGED <<speech, witToken, recognizing, failureReports,
                               unhandled>>
                /\ UNCHANGED <<xrVars, frameVars>>
           ELSE HandlerRejects(i)

\* response.json() settles: on success onVoiceCommand(data.entities) is called
JsonSettled(i) ==
    /\ i \in 1..Len(requests)
    /\ requests[i].stage = "json"
    /\ IF requests[i].body.parsable
       THEN /\ requests' = [requests EXCEPT ![i].stage = "delivered"]
            /\ voiceCalls' = Append(voiceCalls,
                                    [request |-> i,
                                     defined |-> requests[i].body.hasEntities,
                                     entities |-> requests[i].body.entities])
            /\ UNCHANGED <<speech, witToken, recognizing, failureReports, unhandled>>
            /\ UNCHANGED <<xrVars, frameVars>>
       ELSE HandlerRejects(i)

VoiceNext ==
    \/ \E transcript \in Transcripts : OnResult(transcript)
    \/ \E i \in 1..MaxUtterances, body \in Bodies : FetchResolved(i, body)
    \/ \E i \in 1..MaxUtterances : FetchRejected(i)
    \/ \E i \in 1..MaxUtterances : JsonSettled(i)

VoiceSpec == VoiceInit /\ [][VoiceNext]_vars

-----------------------------------------------------------------------------
(* The whole instance: initXR, the frame loop and the voice relay together, *)
(* as the event loop runs them: any handler that is ready may run next.     *)
(* The frames and the answers of the service come from a few kinds each.    *)

Modes == { "AR", "VR" }

FullInit ==
    \E m \in Modes, hasXR \in BOOLEAN, hasSpeech \in BOOLEAN, hasToken \in BOOLEAN :
        Constructed(m, hasXR, hasSpeech, hasToken)

\* A hand that pinches, with a gamepad whose first button is pressed
PinchAndSelect ==
    InputSource(Hand(IndexAt, Resolved(<<0, 100, 1>>)), Gamepad(<<TRUE, FALSE>>))

FewFrames ==
    { [active |-> TRUE, pose |-> Pose(<<AtButton>>), inputSources |-> << PinchAndSelect >>],
      [active |-> TRUE, pose |-> NoPose, inputSources |-> << PinchAndSelect >>],
      [active |-> TRUE, pose |-> Pose(<<TurnedBack, EyeLevel>>), inputSources |-> << >>],
      [active |-> TRUE, pose |-> Pose(<< >>), inputSources |-> << >>] }

FewTranscripts == { << " ", "g", "o" >> }

FewBodies == { NoBody, Json("go_back") }

FullNext ==
    \/ InitXRCall
    \/ \E settled \in BOOLEAN, isSupported \in BOOLEAN :
           InitXRSupported(settled, isSupported)
    \/ \E settled \in BOOLEAN : InitXRSession(settled)
    \/ \E settled \in BOOLEAN : InitXRReferenceSpace(settled)
    \/ \E f \in FewFrames : OnXRFrame(f)
    \/ FrameReturn
    \/ \E transcript \in FewTranscripts : OnResult(transcript)
    \/ \E i \in 1..MaxUtterances, body \in FewBodies : FetchResolved(i, body)
    \/ \E i \in 1..MaxUtterances : FetchRejected(i)
    \/ \E i \in 1..MaxUtterances : JsonSettled(i)

FullSpec == FullInit /\ [][FullNext]_vars

-----------------------------------------------------------------------------
(* Properties.  They read the record of the frame callback that ran last:   *)
(* `frame` (what it was given), `calls` (what it did) and `threw`.          *)

Sources == 1..Len(frame.inputSources)

\* The last callback called `fn` for the i-th input source.
Called(fn, i) == \E k \in 1..Len(calls) : calls[k] = Call(fn, "", i)

\* How often the last callback made the call (op, arg) for the i-th source
CallsFor(op, arg, i) ==
    Cardinality({ k \in 1..Len(calls) : calls[k] = Call(op, arg, i) })

Registrations == CountOp(calls, "requestAnimationFrame")

\* Both tip joints of the hand exist and their poses resolved.
BothResolved(hand) ==
    /\ hand.present /\ hand.hasIndexTip /\ hand.hasThumbTip
    /\ hand.indexPose.resolved /\ hand.thumbPose.resolved

\* The hand has both tip joints and the pose of one of them is null.
TrackingLost(hand) ==
    /\ hand.present /\ hand.hasIndexTip /\ hand.hasThumbTip
    /\ ~(hand.indexPose.resolved /\ hand.thumbPose.resolved)

\* The squared distance of the two tips, in units of 0.0001
TipDistanceSquared(hand) ==
    DistanceSquared(hand.indexPose.position, hand.thumbPose.position)

\* A hand without one of the tip joints, or a gamepad without buttons
Malformed(inputSource) ==
    \/ inputSource.hand.present
         /\ ~(inputSource.hand.hasIndexTip /\ inputSource.hand.hasThumbTip)
    \/ inputSource.gamepad.present /\ inputSource.gamepad.buttons = << >>

\* The loop body ran for the i-th input source.
Processed(i) ==
    /\ frame.inputSources[i].hand.present => Called("detectGestures", i)
    /\ frame.inputSources[i].gamepad.present => Called("detectControllerInput", i)

\* C1: when detectGestures runs on a hand whose two tip poses resolve, it
\* calls onGesture('pinch') once and clicks #actionBtn once if the tips are
\* less than 0.02 apart (squared distance below 4 units), and makes neither
\* call otherwise, a distance of exactly 0.02 included.
C1_PinchIffBelowThreshold ==
    \A i \in Sources :
        LET hand == frame.inputSources[i].hand
            expected == IF TipDistanceSquared(hand) < 4 THEN 1 ELSE 0
        IN  (Called("detectGestures", i) /\ BothResolved(hand))
              => /\ CallsFor("onGesture", "pinch", i) = expected
                 /\ CallsFor("actionBtn.click", "", i) = expected

\* A frame with a hand exactly 0.02 apart that emitted nothing and a hand
\* 0.01 apart that pinched.
C1_Witness ==
    \E i \in Sources, j \in Sources :
        /\ Called("detectGestures", i) /\ Called("detectGestures", j)
        /\ BothResolved(frame.inputSources[i].hand)
        /\ TipDistanceSquared(frame.inputSources[i].hand) = 4
        /\ CallsFor("onGesture", "pinch", i) = 0
        /\ BothResolved(frame.inputSources[j].hand)
        /\ TipDistanceSquared(frame.inputSources[j].hand) = 1
        /\ CallsFor("onGesture", "pinch", j) = 1
        /\ CallsFor("actionBtn.click", "", j) = 1

\* C2: a frame whose pose has no views leaves the camera as it was and the
\* callback does not fail.
C2_EmptyViewsIsNoOp ==
    (frame.active /\ frame.pose.present /\ frame.pose.views = << >>)
      => (camera = cameraBefore /\ ~threw)

\* C3: when the input loop meets a hand without a tip joint or a gamepad
\* without buttons, nothing is thrown out of onXRFrame, every input source of
\* the frame is processed and the next frame is registered.
C3_MalformedSourceSkipped ==
    (/\ frame.active
     /\ ~(frame.pose.present /\ frame.pose.views = << >>)
     /\ \E i \in Sources : Malformed(frame.inputSources[i]))
      => /\ ~threw
         /\ \A j \in Sources : Processed(j)
         /\ Registrations = 1

\* The requests whose handler ended by a rejection (fetch failed, or the
\* response was not JSON)
Failed == { i \in 1..Len(requests) : requests[i].stage = "rejected" }

ReportsOf(i) ==
    Cardinality({ k \in 1..Len(failureReports) : failureReports[k].request = i })

CallbacksOf(i) ==
    Cardinality({ k \in 1..Len(voiceCalls) : voiceCalls[k].request = i })

\* onVoiceCommand is not called for a failed request, a request that got a
\* JSON response is forwarded once whatever failed before it, and the
\* recognition keeps running.
VoiceRelayCarriesOn ==
    /\ \A i \in Failed : CallbacksOf(i) = 0
    /\ \A i \in 1..Len(requests) :
           requests[i].stage = "delivered" => CallbacksOf(i) = 1
    /\ Failed # {} => recognizing

\* C4: the relay reports one failure event for every failed classification
\* request, does not call onVoiceCommand for it, forwards the payload of a
\* later request that succeeds, and keeps listening.
C4_FailureReportedOnce ==
    /\ VoiceRelayCarriesOn
    /\ \A i \in Failed : ReportsOf(i) = 1

\* The pose work of the iteration is done: with a pose, the camera was mapped
\* and the gaze was checked.
PoseWorkDone ==
    frame.pose.present => (Called("updateCameraFromPose", 0) /\ Called("detectGaze", 0))

C6_CameraIsLatestPose ==
    (lastPose.present /\ lastPose.views # << >>)
      => camera = [position |-> lastPose.views[1].position,
                   quaternion |-> lastPose.views[1].orientation]

\* A frame posed at (0, 1.6, 0) with the identity orientation has run after
\* one that turned the camera elsewhere, and a frame without a pose after it.
C6_Witness ==
    /\ frame.active /\ ~frame.pose.present
    /\ lastPose = Pose(<<EyeLevel>>)
    /\ frames = 3
    /\ camera = [position |-> <<0, 160, 0>>, quaternion |-> IdentityQ]

\* C7: an iteration without a viewer pose leaves the camera and every colour
\* as they were, does not check the gaze, and registers the next frame.
C7_MissingPoseRecovered ==
    (frame.active /\ ~frame.pose.present)
      => /\ camera = cameraBefore
         /\ colors = colorsBefore
         /\ ~Called("detectGaze", 0)
         /\ Registrations = 1

\* The objects the gaze ray of the last callback meets: from the camera, along
\* (0, 0, -1) turned by the orientation of the frame's first view
GazeHits ==
    { o \in Objects :
        RayHits(camera.position,
                applyQuaternion(Forward, frame.pose.views[1].orientation),
                SceneChildren[o]) }

GazeDistance(o) ==
    RayDistance(camera.position,
                applyQuaternion(Forward, frame.pose.views[1].orientation),
                SceneChildren[o])

Changed == { o \in Objects : colors[o] # colorsBefore[o] }

\* C8: an iteration changes the colour of at most one object: of none when
\* the gaze ray meets nothing, and otherwise only of the nearest object met,
\* which becomes 0xff0000.
C8_GazeNearestOnly ==
    frame.active =>
        /\ Cardinality(Changed) <= 1
        /\ Called("detectGaze", 0) =>
             /\ GazeHits = {} => colors = colorsBefore
             /\ \A o \in GazeHits :
                    (\A p \in GazeHits \ {o} : GazeDistance(o) < GazeDistance(p))
                      => colors = [colorsBefore EXCEPT ![o] = HighlightColor]

\* The gaze met the button and the wall behind it: the button is red, the
\* wall is not.
C8_Witness ==
    /\ frame.active /\ Called("detectGaze", 0)
    /\ GazeHits = {1, 2}
    /\ colorsBefore[1] # HighlightColor
    /\ colors[1] = HighlightColor
    /\ colors[2] # HighlightColor

\* The gaze met nothing and no colour changed.
C8_WitnessNoHit ==
    /\ frame.active /\ Called("detectGaze", 0)
    /\ GazeHits = {}
    /\ colors = colorsBefore

\* C9: a hand with an unresolved tip pose emits nothing and clicks nothing,
\* and its frame does not fail: every input source is processed and the next
\* frame is registered.
C9_TrackingLossSkipped ==
    \A i \in Sources :
        (frame.active /\ TrackingLost(frame.inputSources[i].hand))
          => /\ CallsFor("onGesture", "pinch", i) = 0
             /\ CallsFor("actionBtn.click", "", i) = 0
             /\ ~threw
             /\ \A j \in Sources : Processed(j)
             /\ Registrations = 1

\* C10: every frame in which a hand has its tips within the threshold emits
\* one pinch and one click for it, whatever happened in earlier frames: so
\* many such hand-frames, so many pinch events and clicks.
C10_PinchEveryQualifyingFrame ==
    /\ pinchEvents = pinchFrames
    /\ clicks = pinchFrames

\* The first button of the gamepad is pressed.
FirstButtonPressed(gamepad) ==
    gamepad.present /\ gamepad.buttons # << >> /\ gamepad.buttons[1]

\* C11: in every frame, each input source with a gamepad emits 'select'
\* once if its first button is pressed and not at all otherwise, whatever
\* the other buttons are.
C11_SelectIffFirstButton ==
    \A i \in Sources :
        (frame.active /\ frame.inputSources[i].gamepad.present)
          => CallsFor("onGesture", "select", i)
               = (IF FirstButtonPressed(frame.inputSources[i].gamepad) THEN 1 ELSE 0)

RECURSIVE PercentDecode(_)
\* What the service reads back from a percent-encoded text
PercentDecode(t) ==
    IF t = << >> THEN << >>
    ELSE IF Len(t) >= 3 /\ t[1] = "%"
         THEN (CASE <<t[2], t[3]>> = <<"2", "0">> -> << " " >>
                 [] <<t[2], t[3]>> = <<"2", "6">> -> << "&" >>
                 [] OTHER -> << "?" >>)
              \o PercentDecode(SubSeq(t, 4, Len(t)))
         ELSE << t[1] >> \o PercentDecode(Tail(t))

RECURSIVE UpToAmpersand(_)
\* The value of a query parameter ends at the first raw ampersand.
UpToAmpersand(t) ==
    IF t = << >> \/ t[1] = "&" THEN << >>
    ELSE << t[1] >> \o UpToAmpersand(Tail(t))

\* The text the service receives as parameter q of the request
ReceivedText(q) == PercentDecode(UpToAmpersand(q))

\* The requests that got a JSON response with an `entities` member and whose
\* handler ran to its end
Succeeded ==
    { i \in 1..Len(requests) :
        requests[i].stage = "delivered" /\ requests[i].body.hasEntities }

\* C12: every utterance has its own request, whose parameter q reads back as
\* the utterance's text without the surrounding blanks; each request that
\* got a JSON response with entities has called onVoiceCommand once, with
\* the entities of its own response, also when requests overlap and end out
\* of order; no call is made for anything else.
C12_OwnPayloadOnce ==
    /\ \A i \in 1..Len(requests) :
           ReceivedText(requests[i].q) = Trim(requests[i].transcript)
    /\ \A i \in Succeeded :
           /\ CallbacksOf(i) = 1
           /\ \A k \in 1..Len(voiceCalls) :
                  voiceCalls[k].request = i
                    => /\ voiceCalls[k].defined
                       /\ voiceCalls[k].entities = requests[i].body.entities
    /\ \A k \in 1..Len(voiceCalls) :
           /\ voiceCalls[k].request \in 1..Len(requests)
           /\ requests[voiceCalls[k].request].stage = "delivered"
    /\ \A i \in 1..Len(requests) : CallbacksOf(i) <= 1

\* Two overlapping requests with different answers, the second delivered
\* before the first, each callback with its own entities.
C12_Witness ==
    /\ Len(requests) = 2 /\ Succeeded = {1, 2}
    /\ requests[1].body.entities # requests[2].body.entities
    /\ requests[1].transcript # Trim(requests[1].transcript)
    /\ Len(voiceCalls) = 2
    /\ voiceCalls[1].request = 2 /\ voiceCalls[2].request = 1
    /\ voiceCalls[1].entities = requests[2].body.entities
    /\ voiceCalls[2].entities = requests[1].body.entities

\* A frame callback is registered and the session may run it.
FrameReady == rafPending > 0 /\ ~frame.active /\ frames < MaxFrames

\* Some classification request is in the given stage.
SomeRequest(stage) == \E i \in 1..Len(requests) : requests[i].stage = stage

\* C13: the voice relay and the frame loop do not touch each other.  A step
\* of the relay (an utterance, a response, a failure) leaves the camera, the
\* colours, the gesture calls, the registered callbacks and with them the
\* readiness of the next frame as they were; a step of initXR or of the frame
\* loop leaves the relay as it was; and what a frame callback does, its
\* registering of the next frame included, is fixed by the frame and by the
\* camera, the colours and the ray it finds, whatever the relay holds.
C13_VoiceAndFramesIndependent ==
    [][/\ voiceVars' # voiceVars
            => (UNCHANGED <<xrVars, frameVars>> /\ FrameReady' = FrameReady)
       /\ <<xrVars, frameVars>>' # <<xrVars, frameVars>> => UNCHANGED voiceVars
       /\ frames' # frames
            => LET o == onXRFrame(camera, colors, raycaster, frame')
               IN  /\ FrameReady
                   /\ camera' = o.camera
                   /\ colors' = o.colors
                   /\ calls' = o.calls
                   /\ threw' = o.threw
                   /\ rafPending' = rafPending - 1
                                      + CountOp(o.calls, "requestAnimationFrame")]_vars

\* A second frame ran, pinched and registered the next one while one request
\* had failed and another was still waiting for its response.
C13_Witness ==
    /\ frame.active /\ frames = 2 /\ ~threw
    /\ CallsFor("onGesture", "pinch", 1) = 1
    /\ Registrations = 1 /\ rafPending = 1
    /\ Len(requests) = 2
    /\ SomeRequest("rejected") /\ SomeRequest("fetch")

\* The camera as the constructor leaves it
InitialCamera == [position |-> <<0, 0, 0>>, quaternion |-> IdentityQ]

\* C14: once initXR has failed, its caller has the error, no frame callback
\* was ever registered and none ever ran: no gesture call was made, no colour
\* changed and the camera is as the constructor left it.
C14_SetupFailsBeforeLoop ==
    xrInit = "failed"
      => /\ initError # ""
         /\ starts = 0 /\ rafPending = 0 /\ ~xrReferenceSpace
         /\ frames = 0 /\ ~frame.active /\ calls = << >>
         /\ pinchEvents = 0 /\ clicks = 0
         /\ camera = InitialCamera
         /\ colors = InitialColors

\* The latest failure there is: in VR mode the session was granted and the
\* reference space was refused.
C14_Witness ==
    /\ xrInit = "failed" /\ mode = "VR"
    /\ xrSession
    /\ initError = "requestReferenceSpace rejected"

IsGestureCall(c) == c.op \in { "onGesture", "actionBtn.click" }

\* The gesture events and clicks among the calls, in their order
GestureCalls(cs) == SelectSeq(cs, IsGestureCall)

\* The hand qualifies as a pinch.
Pinching(hand) == BothResolved(hand) /\ TipDistanceSquared(hand) < 4

\* C15: a frame without a viewer pose makes the same gesture calls, in the
\* same order, as the same frame would with a pose; and when it runs to its
\* end every pinching hand has emitted 'pinch' once and every gamepad with
\* its first button pressed has emitted 'select' once.
C15_InputsProcessedWithoutPose ==
    (frame.active /\ ~frame.pose.present)
      => /\ \A p \in { Pose(<<EyeLevel>>), Pose(<<AtButton>>) } :
                GestureCalls(calls)
                  = GestureCalls(onXRFrame(cameraBefore, colorsBefore, raycaster,
                                           [frame EXCEPT !.pose = p]).calls)
         /\ ~threw
              => \A i \in Sources :
                     /\ CallsFor("onGesture", "pinch", i)
                          = (IF Pinching(frame.inputSources[i].hand) THEN 1 ELSE 0)
                     /\ CallsFor("onGesture", "select", i)
                          = (IF FirstButtonPressed(frame.inputSources[i].gamepad)
                             THEN 1 ELSE 0)

\* A frame without a pose that emitted a pinch for one input source and a
\* select for another, and left the camera alone.
C15_Witness ==
    /\ frame.active /\ ~frame.pose.present /\ ~threw
    /\ camera = cameraBefore
    /\ \E i \in Sources, j \in Sources :
           /\ i # j
           /\ Pinching(frame.inputSources[i].hand)
           /\ CallsFor("onGesture", "pinch", i) = 1
           /\ FirstButtonPressed(frame.inputSources[j].gamepad)
           /\ CallsFor("onGesture", "select", j) = 1

\* The place of the first call of `fn` among the calls of the last callback
\* (0 if there is none)
FirstCall(fn) ==
    IF \E k \in 1..Len(calls) : calls[k].op = fn
    THEN CHOOSE k \in 1..Len(calls) :
             /\ calls[k].op = fn
             /\ \A l \in 1..(k - 1) : calls[l].op # fn
    ELSE 0

\* C16: in a frame with a pose that has a view, updateCameraFromPose runs
\* and then detectGaze, and the ray detectGaze casts starts at the position
\* of this frame's first view and points along (0,0,-1) turned by this
\* frame's first-view orientation; detectGaze never runs on a camera that
\* this frame has not moved.
C16_GazeRayFromCurrentFrame ==
    /\ (frame.active /\ frame.pose.present /\ frame.pose.views # << >>)
         => Called("detectGaze", 0)
    /\ Called("detectGaze", 0)
         => /\ frame.pose.present /\ frame.pose.views # << >>
            /\ FirstCall("updateCameraFromPose") > 0
            /\ FirstCall("updateCameraFromPose") < FirstCall("detectGaze")
            /\ FirstCall("raycaster.set") > FirstCall("detectGaze")
            /\ raycaster.origin = frame.pose.views[1].position
            /\ raycaster.direction
                 = applyQuaternion(Forward, frame.pose.views[1].orientation)

\* A later frame whose viewer stands elsewhere than the camera was left and
\* looks backwards: the ray starts at the new position and points backwards.
C16_Witness ==
    /\ frame.active /\ frames >= 2 /\ Called("detectGaze", 0)
    /\ cameraBefore.position # frame.pose.views[1].position
    /\ cameraBefore.position # InitialCamera.position
    /\ raycaster.origin = frame.pose.views[1].position
    /\ raycaster.direction = <<0, 0, 1>>

\* The objects that carry the highlight colour
Highlighted == { o \in Objects : colors[o] = HighlightColor }

\* C17: no step takes the highlight colour off an object: the set of
\* highlighted objects only grows, through frames whose gaze is elsewhere,
\* frames without a pose and frames that fail alike.
C17_HighlightsSticky ==
    [][\A o \in Objects :
           colors[o] = HighlightColor => colors'[o] = HighlightColor]_vars

\* The button was highlighted in an earlier frame; in this one the gaze is off
\* it and has highlighted another object, and the button is still red.
C17_Witness ==
    /\ frame.active /\ Called("detectGaze", 0)
    /\ colorsBefore[1] = HighlightColor
    /\ 1 \notin GazeHits
    /\ Changed # {}
    /\ 1 \in Highlighted /\ Cardinality(Highlighted) = 2

\* The places of the gesture events and clicks among the calls
GesturePlaces == { k \in 1..Len(calls) : IsGestureCall(calls[k]) }

\* C18: the gesture events of a frame come in the order of the input
\* sources, all of source i before any of source i+1; a source whose hand
\* pinched and whose first button is pressed also emits 'select', after its
\* 'pinch' and the click; and every event is emitted before the callback
\* registers the next frame.
C18_EventsInSourceOrder ==
    /\ \A k \in GesturePlaces, l \in GesturePlaces :
           k < l => /\ calls[k].src <= calls[l].src
                    /\ (calls[k].src = calls[l].src /\ calls[k].arg = "select")
                         => calls[l].arg = "select"
    /\ \A i \in Sources :
           (/\ frame.active
            /\ CallsFor("onGesture", "pinch", i) = 1
            /\ FirstButtonPressed(frame.inputSources[i].gamepad))
             => CallsFor("onGesture", "select", i) = 1
    /\ \A k \in GesturePlaces, l \in 1..Len(calls) :
           calls[l].op = "requestAnimationFrame" => k < l

\* Two input sources that each pinched and selected: pinch, click and select
\* of the first, then those of the second, then the registration.
C18_Witness ==
    /\ frame.active /\ Len(frame.inputSources) = 2
    /\ GestureCalls(calls)
         = << Call("onGesture", "pinch", 1), Call("actionBtn.click", "", 1),
              Call("onGesture", "select", 1),
              Call("onGesture", "pinch", 2), Call("actionBtn.click", "", 2),
              Call("onGesture", "select", 2) >>
    /\ calls[Len(calls)] = Call("requestAnimationFrame", "", 0)

\* C19: an instance constructed without a speech-recognition capability or
\* without a witToken never listens: at no time has a classification request
\* been issued, onVoiceCommand been called or a relay handler failed.
C19_UnarmedRelayIsSilent ==
    ~(speech /\ witToken)
      => /\ ~recognizing
         /\ requests = << >>
         /\ voiceCalls = << >>
         /\ unhandled = 0

\* An instance with speech recognition and no token whose frame loop is at
\* its second frame, has pinched and selected and registered the next frame.
C19_Witness ==
    /\ speech /\ ~witToken
    /\ frame.active /\ frames = 2 /\ ~threw
    /\ CallsFor("onGesture", "pinch", 1) = 1
    /\ CallsFor("onGesture", "select", 1) = 1
    /\ Registrations = 1 /\ rafPending = 1
    /\ camera # InitialCamera

=============================================================================
